---------------------------- MODULE Spec2Model ----------------------------
(***************************************************************************)
(* Model of src/static/app.js: the page controller of the activity sign-up *)
(* page.  One callback runs at a time (the browser's event loop); an       *)
(* `await` of the source ends a step of the model, and the continuation    *)
(* after it is a later step.  The two awaits of one request (fetch, then   *)
(* response.json()) are a single wait: the source does nothing between     *)
(* them.  Strings whose characters matter (activity names, participant     *)
(* identifiers, data attributes, URL components) are sequences of          *)
(* one-character strings; banner texts are plain strings.                  *)
(***************************************************************************)
EXTENDS Integers, Sequences, FiniteSets, TLC

VARIABLES
    server,          \* the HTTP server's activity data (external collaborator)
    activitiesList,  \* DOM: content of #activities-list
    activitySelect,  \* DOM: option values of #activity, in order
    formFields,      \* DOM: values of #email and of #activity inside #signup-form
    messageDiv,      \* DOM: #message, its textContent and its class list
    timers,          \* pending setTimeout callbacks, oldest first
    tasks,           \* suspended async callbacks, each at one of its awaits
    nextId,          \* number of callbacks started so far
    net,             \* requests issued so far, per method
    dialogs,         \* confirmation dialogs shown so far
    faults,          \* whether some await so far saw anything but the server's answer
    lastRendered,    \* entries of the last GET response whose render ran to its end
    last             \* the callback that ran in the last step, and its outcome

vars == <<server, activitiesList, activitySelect, formFields, messageDiv, timers,
          tasks, nextId, net, dialogs, faults, lastRendered, last>>

---------------------------------------------------------------------------
(* Bounds of the model *)

\* user actions (submissions and clicks) in one behaviour
MaxActions == 2

\* length of the strings the encoding round trip is checked on
MaxLen == 2

---------------------------------------------------------------------------
(* Strings *)

\* characters encodeURIComponent leaves alone, among those the model uses
Unreserved == {"a", "b", "c", "d", "e", "f", "i", "n", "u", "0", "2", "4", "5"}

\* UTF-8 code, as two hex digits, of each other character the model uses
HexOf == [c \in {"@", " ", "%"} |->
            CASE c = "@" -> <<"4", "0">>
              [] c = " " -> <<"2", "0">>
              [] c = "%" -> <<"2", "5">>]

\* the character of a code: the inverse of HexOf
CodeChar(h) == CHOOSE c \in DOMAIN HexOf : HexOf[c] = h

IsCode(h) == \E c \in DOMAIN HexOf : HexOf[c] = h

\* an encoding that writes a space as "+", as form encoding does
RECURSIVE encodeSpaceAsPlus(_)
encodeSpaceAsPlus(s) ==
    IF s = <<>> THEN <<>>
    ELSE (IF Head(s) = " " THEN <<"+">>
          ELSE IF Head(s) \in Unreserved THEN <<Head(s)>>
          ELSE <<"%">> \o HexOf[Head(s)])
         \o encodeSpaceAsPlus(Tail(s))

RECURSIVE encodeURIComponent(_)
encodeURIComponent(s) ==
    IF s = <<>> THEN <<>>
    ELSE (IF Head(s) \in Unreserved THEN <<Head(s)>> ELSE <<"%">> \o HexOf[Head(s)])
         \o encodeURIComponent(Tail(s))

\* decodeURIComponent of a string: [ok |-> TRUE, v |-> decoded], or
\* [ok |-> FALSE, ...] when it throws URIError (a "%" not followed by a code)
RECURSIVE decodeString(_)
decodeString(s) ==
    IF s = <<>> THEN [ok |-> TRUE, v |-> <<>>]
    ELSE IF Head(s) # "%"
         THEN LET r == decodeString(Tail(s))
              IN  [ok |-> r.ok, v |-> <<Head(s)>> \o r.v]
         ELSE IF Len(s) < 3 \/ ~IsCode(SubSeq(s, 2, 3))
              THEN [ok |-> FALSE, v |-> <<>>]
              ELSE LET r == decodeString(SubSeq(s, 4, Len(s)))
                   IN  [ok |-> r.ok, v |-> <<CodeChar(SubSeq(s, 2, 3))>> \o r.v]

\* a data attribute of an element: absent (dataset.x is undefined) or a string
Absent == [present |-> FALSE, v |-> <<>>]
Attr(s) == [present |-> TRUE, v |-> s]

\* decodeURIComponent(item.dataset.x): an absent attribute is the value
\* undefined, which decodeURIComponent first converts to the string "undefined"
UndefinedString == <<"u", "n", "d", "e", "f", "i", "n", "e", "d">>

decodeURIComponent(a) ==
    IF a.present THEN decodeString(a.v) ELSE decodeString(UndefinedString)

---------------------------------------------------------------------------
(* The server: GET /activities, POST .../signup, DELETE .../participants *)

\* participant identifiers a user may type into the email field
Emails == {<<"a", "@", "b">>}

\* the server's activities in the key order of its response: name,
\* description, schedule, max_participants
Catalog == <<
    [name |-> <<"a", " ", "b">>, description |-> "d1", schedule |-> "s1",
     max_participants |-> 2],
    [name |-> <<"c">>, description |-> "d2", schedule |-> "s2",
     max_participants |-> 1] >>

Index(name) == {i \in DOMAIN Catalog : Catalog[i].name = name}

Range(s) == {s[i] : i \in DOMAIN s}

Remove(s, x) == SelectSeq(s, LAMBDA y : y # x)

\* the body of GET /activities for roster r: one entry per activity
Activities(r) ==
    [i \in DOMAIN Catalog |->
        [name |-> Catalog[i].name,
         details |-> [description |-> Catalog[i].description,
                      schedule |-> Catalog[i].schedule,
                      max_participants |-> Catalog[i].max_participants,
                      hasParticipants |-> TRUE,
                      participants |-> r[i]]]]

\* a body of the wrong shape: entry k carries no participants field
Malformed(entries, k) ==
    [i \in DOMAIN entries |->
        IF i = k
        THEN [entries[i] EXCEPT !.details.hasParticipants = FALSE,
                                !.details.participants = <<>>]
        ELSE entries[i]]

\* whether the server accepts a mutation, and the roster after it
Accepts(r, method, activity, email) ==
    /\ Index(activity) # {}
    /\ LET i == CHOOSE j \in Index(activity) : TRUE
       IN  IF method = "POST"
           THEN /\ email \notin Range(r[i])
                /\ Len(r[i]) < Catalog[i].max_participants
           ELSE email \in Range(r[i])

Applied(r, method, activity, email) ==
    LET i == CHOOSE j \in Index(activity) : TRUE
    IN  IF method = "POST"
        THEN [r EXCEPT ![i] = Append(r[i], email)]
        ELSE [r EXCEPT ![i] = Remove(r[i], email)]

\* the JSON body of a mutation's response: {message} on success, {detail} or
\* {} on failure ("" stands for an absent field)
Body(message, detail) == [message |-> message, detail |-> detail]

---------------------------------------------------------------------------
(* fetchActivities: rendering one response *)

FailedHtml == [kind |-> "failed", cards |-> <<>>]

InitialHtml == [kind |-> "initial", cards |-> <<>>]

Placeholder == <<>>

ToUpperCase(c) ==
    CASE c = "a" -> "A" [] c = "b" -> "B" [] c = "c" -> "C" [] OTHER -> c

\* label.charAt(0).toUpperCase()
Avatar(label) == IF label = <<>> THEN <<>> ELSE <<ToUpperCase(Head(label))>>

\* one <li class="participant-item"> of a card
ParticipantItem(name, p) ==
    [activity |-> Attr(encodeURIComponent(name)),
     email |-> Attr(encodeURIComponent(p)),
     avatar |-> Avatar(p),
     label |-> p]

\* the capacity shown where the remaining spots belong
SpotsLeftShowsCapacity(details) == details.max_participants

SpotsLeft(details) == details.max_participants - Len(details.participants)

\* participantsHtml: the rows, or none under the "No participants yet" text
ParticipantsHtml(name, details) ==
    [i \in DOMAIN details.participants |-> ParticipantItem(name, details.participants[i])]

ActivityCard(name, details) ==
    [name |-> name,
     description |-> details.description,
     schedule |-> details.schedule,
     spotsLeft |-> SpotsLeft(details),
     muted |-> (Len(details.participants) = 0),
     items |-> ParticipantsHtml(name, details)]

\* the forEach of the render: cards and options appended before it ends or
\* throws (details.participants.length of an entry without participants)
RECURSIVE RenderEntries(_, _)
RenderEntries(entries, acc) ==
    IF entries = <<>> THEN acc
    ELSE LET e == Head(entries)
         IN  IF ~e.details.hasParticipants
             THEN [acc EXCEPT !.threw = TRUE]
             ELSE RenderEntries(Tail(entries),
                    [cards |-> Append(acc.cards, ActivityCard(e.name, e.details)),
                     options |-> Append(acc.options, e.name),
                     threw |-> FALSE])

Cleared == [cards |-> <<>>, options |-> <<Placeholder>>, threw |-> FALSE]

---------------------------------------------------------------------------
(* The message banner and its timers *)

\* messageDiv.textContent = text; messageDiv.className = className
SetMessage(text, className) == [textContent |-> text, classes |-> {className}]

ClassListRemove(m, c) == [m EXCEPT !.classes = @ \ {c}]

ClassListAdd(m, c) == [m EXCEPT !.classes = @ \cup {c}]

Visible(m) == "hidden" \notin m.classes

\* a setTimeout that first clears the timers still pending
SetTimeoutCancelling(q, id) == <<id>>

\* setTimeout(() => messageDiv.classList.add("hidden"), 5000) by callback id:
\* equal delays expire in the order they were armed
SetTimeout(q, id) == Append(q, id)

---------------------------------------------------------------------------
(* Requests and responses *)

NoBody == Body("", "")

NoResponse == [kind |-> "none", ok |-> FALSE, body |-> NoBody, entries |-> <<>>]

\* fetch() rejected (network error)
Rejected == [kind |-> "neterr", ok |-> FALSE, body |-> NoBody, entries |-> <<>>]

\* response.json() rejected (the body is not JSON)
NonJson(ok) == [kind |-> "nonjson", ok |-> ok, body |-> NoBody, entries |-> <<>>]

JsonBody(ok, body) == [kind |-> "json", ok |-> ok, body |-> body, entries |-> <<>>]

JsonActivities(entries) == [kind |-> "json", ok |-> TRUE, body |-> NoBody, entries |-> entries]

\* fetch("/activities", ...) of fetchActivities, issued for callback id of kind cb
GetRequest(id, cb) ==
    [id |-> id, cb |-> cb, pc |-> "refresh", method |-> "GET",
     activity |-> <<>>, email |-> <<>>, served |-> FALSE, resp |-> NoResponse]

\* fetch(`/activities/${encodeURIComponent(activity)}/...?email=${encodeURIComponent(email)}`)
MutationRequest(id, cb, method, activity, email) ==
    [id |-> id, cb |-> cb, pc |-> "mutation", method |-> method,
     activity |-> encodeURIComponent(activity), email |-> encodeURIComponent(email),
     served |-> FALSE, resp |-> NoResponse]

Count(n, method) == [n EXCEPT ![method] = @ + 1]

\* the server's answer to GET /activities
GetResponse(r) == JsonActivities(Activities(r))

\* the server's answers to a mutation: {message} with an OK status, or a
\* non-OK status with {detail} or with {}
MutationResponses(accepted, method) ==
    IF accepted
    THEN {JsonBody(TRUE, Body(IF method = "POST" THEN "Signed up" ELSE "Unregistered", ""))}
    ELSE {JsonBody(FALSE, Body("", "Refused")), JsonBody(FALSE, NoBody)}

\* what the awaits of a callback may see of request t: while the server has
\* not answered, only a rejected fetch; after it, the answer, the answer
\* with a body of the wrong shape or a body that is no JSON, or a rejected fetch
Arrivals(t) ==
    IF ~t.served THEN {Rejected}
    ELSE {t.resp, NonJson(t.resp.ok), Rejected}
         \cup (IF t.method = "GET"
                THEN {JsonActivities(Malformed(t.resp.entries, k)) : k \in DOMAIN t.resp.entries}
                ELSE {})

\* the record of a callback: which step of which callback ran, how it
\* ended, and what it was given (the element clicked and the user's answer,
\* or what its await saw)
NoTarget == [kind |-> "none", activity |-> Absent, email |-> Absent]

Event(step, cb, id, outcome, target, sure, resp) ==
    [step |-> step, cb |-> cb, id |-> id, outcome |-> outcome,
     target |-> target, sure |-> sure, resp |-> resp]

---------------------------------------------------------------------------
(* fetchActivities after its awaits, and the handlers' branches *)

\* fetchActivities clearing the selection control before its awaits, so that
\* a rejected fetch leaves the placeholder alone
FetchActivitiesClearingFirst(resp, select, fields) ==
    LET r == RenderEntries(resp.entries, Cleared)
    IN  IF resp.kind # "json"
        THEN [list |-> FailedHtml, select |-> <<Placeholder>>,
              fields |-> [fields EXCEPT !.activity = Placeholder], rendered |-> FALSE]
        ELSE [list |-> IF r.threw THEN FailedHtml ELSE [kind |-> "cards", cards |-> r.cards],
              select |-> r.options,
              fields |-> [fields EXCEPT !.activity = Placeholder],
              rendered |-> ~r.threw]

\* fetchActivities without the reset of the select at line 15: the options
\* of a render are appended to those already there
FetchActivitiesAppending(resp, select, fields) ==
    IF resp.kind # "json"
    THEN [list |-> FailedHtml, select |-> select, fields |-> fields, rendered |-> FALSE]
    ELSE LET r == RenderEntries(resp.entries, Cleared)
         IN  [list |-> IF r.threw THEN FailedHtml ELSE [kind |-> "cards", cards |-> r.cards],
              select |-> select \o Tail(r.options),
              fields |-> [fields EXCEPT !.activity = Placeholder],
              rendered |-> ~r.threw]

\* fetchActivities without the emptying of the list at line 14: the cards of
\* a render are appended to those of the renders before it
FetchActivitiesKeepingCards(resp, select, fields) ==
    IF resp.kind # "json"
    THEN [list |-> FailedHtml, select |-> select, fields |-> fields, rendered |-> FALSE]
    ELSE LET r == RenderEntries(resp.entries, Cleared)
         IN  [list |-> IF r.threw THEN FailedHtml
                       ELSE [kind |-> "cards", cards |-> activitiesList.cards \o r.cards],
              select |-> r.options,
              fields |-> [fields EXCEPT !.activity = Placeholder],
              rendered |-> ~r.threw]

\* fetchActivities keeping the cards already displayed: the first response
\* rendered wins
FetchActivitiesFirstWins(resp, select, fields) ==
    IF resp.kind # "json"
    THEN [list |-> FailedHtml, select |-> select, fields |-> fields, rendered |-> FALSE]
    ELSE LET r == RenderEntries(resp.entries, Cleared)
         IN  [list |-> IF r.threw THEN FailedHtml
                       ELSE IF activitiesList.kind = "cards" THEN activitiesList
                       ELSE [kind |-> "cards", cards |-> r.cards],
              select |-> r.options,
              fields |-> [fields EXCEPT !.activity = Placeholder],
              rendered |-> ~r.threw]

\* the try/catch of fetchActivities on response resp: the list container,
\* the options of the selection control, the form's fields (replacing the
\* options selects the placeholder), and whether the render ran to its end
FetchActivities(resp, select, fields) ==
    IF resp.kind # "json"
    THEN [list |-> FailedHtml, select |-> select, fields |-> fields, rendered |-> FALSE]
    ELSE LET r == RenderEntries(resp.entries, Cleared)
         IN  [list |-> IF r.threw THEN FailedHtml ELSE [kind |-> "cards", cards |-> r.cards],
              select |-> r.options,
              fields |-> [fields EXCEPT !.activity = Placeholder],
              rendered |-> ~r.threw]

\* a handler that looks at response.ok before it reads the body
OutcomeByStatus(resp) ==
    IF resp.kind = "neterr" THEN "exception"
    ELSE IF resp.ok THEN "ok"
    ELSE IF resp.kind # "json" THEN "exception" ELSE "error"

\* which branch a handler takes on the response to its request
Outcome(resp) ==
    IF resp.kind # "json" THEN "exception"
    ELSE IF resp.ok THEN "ok" ELSE "error"

\* signupForm.reset()
Reset == [email |-> <<>>, activity |-> Placeholder]

Or(text, fallback) == IF text = "" THEN fallback ELSE text

\* the banner the submit handler leaves when its request is answered
SignupBanner(resp) ==
    CASE Outcome(resp) = "ok" -> SetMessage(resp.body.message, "success")
      [] Outcome(resp) = "error" ->
            ClassListRemove(SetMessage(Or(resp.body.detail, "An error occurred"), "error"),
                            "hidden")
      [] OTHER ->
            ClassListRemove(SetMessage("Failed to sign up. Please try again.", "error"),
                            "hidden")

\* a submit handler that arms its timer before it awaits the re-fetch
SignupTimersBeforeRefetch(q, id, resp) ==
    IF Outcome(resp) \in {"ok", "error"} THEN SetTimeout(q, id) ELSE q

\* the timers the submit handler leaves when its request is answered
SignupTimers(q, id, resp) ==
    IF Outcome(resp) = "error" THEN SetTimeout(q, id) ELSE q

\* the banner the click handler leaves when its request is answered
RemoveBanner(resp) ==
    CASE Outcome(resp) = "ok" ->
            ClassListRemove(SetMessage(resp.body.message, "success"), "hidden")
      [] Outcome(resp) = "error" ->
            ClassListRemove(SetMessage(Or(resp.body.detail, "Failed to remove participant"),
                                       "error"), "hidden")
      [] OTHER ->
            ClassListRemove(SetMessage("Failed to remove participant", "error"), "hidden")

\* the click handler with a catch that arms no timer
RemoveTimersNoneInCatch(q, id, resp) ==
    IF Outcome(resp) = "error" THEN SetTimeout(q, id) ELSE q

\* the timers the click handler leaves when its request is answered
RemoveTimers(q, id, resp) ==
    IF Outcome(resp) \in {"error", "exception"} THEN SetTimeout(q, id) ELSE q

\* the submit handler without its signupForm.reset()
SignupFormNeverReset(fields, resp) == fields

\* the submit handler with signupForm.reset() outside the response.ok branch
SignupFormAlwaysReset(fields, resp) == Reset

\* the form's fields after the submit handler's request is answered
SignupForm(fields, resp) == IF Outcome(resp) = "ok" THEN Reset ELSE fields

\* a handler with its await fetchActivities() outside the response.ok branch
RefetchesAlways(resp) == TRUE

\* whether a handler goes on to await fetchActivities()
Refetches(resp) == Outcome(resp) = "ok"

\* a render that shows the banner again whoever asked for it
BannerAfterRefreshAll(m, cb) == ClassListRemove(m, "hidden")

\* the statements of a handler after its await fetchActivities()
BannerAfterRefresh(m, cb) == IF cb = "signup" THEN ClassListRemove(m, "hidden") ELSE m

TimersAfterRefresh(q, id, cb) == IF cb \in {"signup", "remove"} THEN SetTimeout(q, id) ELSE q

\* the click handler without its if (!sure) return;
ProceedsAnyway(sure) == TRUE

\* if (!sure) return;
Proceeds(sure) == sure

\* the click handler up to its fetch, on the element clicked
ClickOutcome(target, sure) ==
    IF target.kind = "other" THEN "noButton"
    ELSE IF target.kind = "button" THEN "noItem"
    ELSE LET activityName == decodeURIComponent(target.activity)
             email == decodeURIComponent(target.email)
         IN  IF ~activityName.ok \/ ~email.ok THEN "uriError"
             ELSE IF activityName.v = <<>> \/ email.v = <<>> THEN "noData"
             ELSE IF ~Proceeds(sure) THEN "declined"
             ELSE "confirmed"

ShowsDialog(o) == o \in {"declined", "confirmed"}

\* the answers the user can give to window.confirm, when it is called
Answers(target) ==
    IF ShowsDialog(ClickOutcome(target, TRUE)) THEN BOOLEAN ELSE {FALSE}

Item(activity, email) == [kind |-> "item", activity |-> activity, email |-> email]

\* the rows that the render put into the list container
RenderedItems ==
    UNION {{Item(activitiesList.cards[i].items[j].activity,
                 activitiesList.cards[i].items[j].email) :
                j \in DOMAIN activitiesList.cards[i].items} :
            i \in DOMAIN activitiesList.cards}

\* elements inside the list container that no render produced: something
\* that is no removal control, a removal control outside a row, and rows
\* whose data attributes are absent, empty or no percent-encoding
ForeignTargets ==
    {[kind |-> "other", activity |-> Absent, email |-> Absent],
     [kind |-> "button", activity |-> Absent, email |-> Absent],
     Item(Absent, Attr(<<"c">>)),
     Item(Attr(<<"c">>), Absent),
     Item(Attr(<<"c">>), Attr(<<>>)),
     Item(Attr(<<"%">>), Attr(<<"c">>))}

ClickTargets == RenderedItems \cup ForeignTargets

---------------------------------------------------------------------------
(* The state after DOMContentLoaded, and the callbacks *)

\* rosters the server may hold when the page loads
InitialRosters == {<< <<<<"c">>>>, <<>> >>}

Init ==
    /\ server \in InitialRosters
    /\ activitiesList = InitialHtml
    /\ activitySelect = <<Placeholder>>
    /\ formFields = Reset
    /\ messageDiv = [textContent |-> "", classes |-> {"hidden"}]
    /\ timers = <<>>
    /\ tasks = {GetRequest(0, "load")}
    /\ nextId = 1
    /\ net = [GET |-> 1, POST |-> 0, DELETE |-> 0]
    /\ dialogs = 0
    /\ faults = FALSE
    /\ lastRendered = <<>>
    /\ last = Event("load", "load", 0, "sent", NoTarget, FALSE, NoResponse)

\* the submit event with the fields holding email and activity: the handler
\* up to its await fetch(...)
Submit(email, activity) ==
    /\ nextId <= MaxActions
    /\ formFields' = [email |-> email, activity |-> activity]
    /\ tasks' = tasks \cup {MutationRequest(nextId, "signup", "POST", activity, email)}
    /\ net' = Count(net, "POST")
    /\ nextId' = nextId + 1
    /\ last' = Event("submit", "signup", nextId, "sent", NoTarget, FALSE, NoResponse)
    /\ UNCHANGED <<server, activitiesList, activitySelect, messageDiv, timers, dialogs,
                   faults, lastRendered>>

\* a click inside the list container on target, the user answering sure to
\* the confirmation dialog if it comes: the handler up to its await fetch(...)
Click(target, sure) ==
    LET o == ClickOutcome(target, sure)
    IN  /\ nextId <= MaxActions
        /\ dialogs' = IF ShowsDialog(o) THEN dialogs + 1 ELSE dialogs
        /\ tasks' = IF o = "confirmed"
                    THEN tasks \cup {MutationRequest(nextId, "remove", "DELETE",
                                        decodeURIComponent(target.activity).v,
                                        decodeURIComponent(target.email).v)}
                    ELSE tasks
        /\ net' = IF o = "confirmed" THEN Count(net, "DELETE") ELSE net
        /\ nextId' = nextId + 1
        /\ last' = Event("click", "remove", nextId, o, target, sure, NoResponse)
        /\ UNCHANGED <<server, activitiesList, activitySelect, formFields, messageDiv,
                       timers, faults, lastRendered>>

Answered(t, resp) == [t EXCEPT !.served = TRUE, !.resp = resp]

\* the server answers GET /activities with its data of that moment
ServeGet(t) ==
    /\ t \in tasks /\ ~t.served /\ t.method = "GET"
    /\ tasks' = (tasks \ {t}) \cup {Answered(t, GetResponse(server))}
    /\ UNCHANGED <<last, server, activitiesList, activitySelect, formFields, messageDiv, timers,
                   nextId, net, dialogs, faults, lastRendered>>

\* the server gets a signup or a removal, applies it if it accepts it, and answers
ServeMutation(t) ==
    /\ t \in tasks /\ ~t.served /\ t.method # "GET"
    /\ LET activity == decodeString(t.activity).v
           email == decodeString(t.email).v
           accepted == Accepts(server, t.method, activity, email)
       IN  /\ server' = IF accepted THEN Applied(server, t.method, activity, email)
                        ELSE server
           /\ \E resp \in MutationResponses(accepted, t.method) :
                 tasks' = (tasks \ {t}) \cup {Answered(t, resp)}
    /\ UNCHANGED <<last, activitiesList, activitySelect, formFields, messageDiv, timers,
                   nextId, net, dialogs, faults, lastRendered>>

\* the submit handler from const result = await response.json() on
SignupResponse(t, resp) ==
    /\ t \in tasks /\ resp \in Arrivals(t) /\ t.cb = "signup" /\ t.pc = "mutation"
    /\ messageDiv' = SignupBanner(resp)
    /\ formFields' = SignupForm(formFields, resp)
    /\ timers' = SignupTimers(timers, t.id, resp)
    /\ tasks' = (tasks \ {t}) \cup
                (IF Refetches(resp) THEN {GetRequest(t.id, t.cb)} ELSE {})
    /\ net' = IF Refetches(resp) THEN Count(net, "GET") ELSE net
    /\ faults' = (faults \/ ~t.served \/ resp # t.resp)
    /\ last' = Event("response", t.cb, t.id, Outcome(resp), NoTarget, FALSE, resp)
    /\ UNCHANGED <<server, activitiesList, activitySelect, nextId, dialogs, lastRendered>>

\* the click handler from const resJson = await resp.json() on
RemoveResponse(t, resp) ==
    /\ t \in tasks /\ resp \in Arrivals(t) /\ t.cb = "remove" /\ t.pc = "mutation"
    /\ messageDiv' = RemoveBanner(resp)
    /\ timers' = RemoveTimers(timers, t.id, resp)
    /\ tasks' = (tasks \ {t}) \cup
                (IF Refetches(resp) THEN {GetRequest(t.id, t.cb)} ELSE {})
    /\ net' = IF Refetches(resp) THEN Count(net, "GET") ELSE net
    /\ faults' = (faults \/ ~t.served \/ resp # t.resp)
    /\ last' = Event("response", t.cb, t.id, Outcome(resp), NoTarget, FALSE, resp)
    /\ UNCHANGED <<server, activitiesList, activitySelect, formFields, nextId, dialogs,
                   lastRendered>>

\* fetchActivities from const activities = await response.json() on, and
\* then the rest of the handler that awaited it
RenderResponse(t, resp) ==
    /\ t \in tasks /\ resp \in Arrivals(t) /\ t.pc = "refresh"
    /\ LET f == FetchActivities(resp, activitySelect, formFields)
       IN  /\ activitiesList' = f.list
           /\ activitySelect' = f.select
           /\ formFields' = f.fields
           /\ lastRendered' = IF f.rendered THEN resp.entries ELSE lastRendered
           /\ last' = Event("render", t.cb, t.id, IF f.rendered THEN "rendered" ELSE "failed",
                              NoTarget, FALSE, resp)
    /\ messageDiv' = BannerAfterRefresh(messageDiv, t.cb)
    /\ timers' = TimersAfterRefresh(timers, t.id, t.cb)
    /\ tasks' = tasks \ {t}
    /\ faults' = (faults \/ ~t.served \/ resp # t.resp)
    /\ UNCHANGED <<server, nextId, net, dialogs>>

\* the oldest timer expires: () => messageDiv.classList.add("hidden")
TimerFires ==
    /\ timers # <<>>
    /\ messageDiv' = ClassListAdd(messageDiv, "hidden")
    /\ timers' = Tail(timers)
    /\ last' = Event("timer", "timer", Head(timers), "hidden", NoTarget, FALSE, NoResponse)
    /\ UNCHANGED <<server, activitiesList, activitySelect, formFields, tasks, nextId, net,
                   dialogs, faults, lastRendered>>

Next ==
    \/ \E email \in Emails, activity \in Range(activitySelect) : Submit(email, activity)
    \/ \E target \in ClickTargets : \E sure \in Answers(target) : Click(target, sure)
    \/ \E t \in tasks : ServeGet(t)
    \/ \E t \in tasks : ServeMutation(t)
    \/ \E t \in tasks : \E resp \in Arrivals(t) : SignupResponse(t, resp)
    \/ \E t \in tasks : \E resp \in Arrivals(t) : RemoveResponse(t, resp)
    \/ \E t \in tasks : \E resp \in Arrivals(t) : RenderResponse(t, resp)
    \/ TimerFires

Spec == Init /\ [][Next]_vars

---------------------------------------------------------------------------
(* Properties *)

\* a callback ran in this step (every callback leaves its own record)
Ran(step, cb) == last' # last /\ last'.step = step /\ last'.cb = cb

Last(q) == q[Len(q)]

\* the cards a complete render of roster r shows
CardsOf(r) == RenderEntries(Activities(r), Cleared).cards

\* C1: every outcome of a signup submission (HTTP OK, HTTP non-OK, exception)
\* leaves the banner visible with an auto-hide timer armed for that
\* submission: once the handler has run to its end (on the response when it
\* is not OK, after the re-fetch when it is), the banner is visible and the
\* handler's timer is the newest pending one.
C1_SignupAlwaysArmsTimer ==
    (/\ last.cb = "signup"
     /\ \/ last.step = "response" /\ last.outcome # "ok"
        \/ last.step = "render")
    => /\ Visible(messageDiv)
       /\ timers # <<>>
       /\ Last(timers) = last.id

\* C2: once every request has completed, every await having seen the
\* server's answer, the displayed activity list is the server's current data.
C2_DisplayEqualsServer ==
    (tasks = {} /\ ~faults)
    => activitiesList = [kind |-> "cards", cards |-> CardsOf(server)]

\* C3 as stated: whenever a fetch of the activity list fails (fetch or
\* json() rejects), the list container shows the failure message and the
\* selection control holds the placeholder option alone.
FetchFailed(e) == e.step = "render" /\ e.resp.kind \in {"neterr", "nonjson"}

C3_FailureLeavesPlaceholderOnly ==
    FetchFailed(last)
    => activitiesList = FailedHtml /\ activitySelect = <<Placeholder>>

\* C3 amended: whenever a fetch of the activity list fails (fetch or json()
\* rejects), the list container shows the failure message and the selection
\* control keeps the options it had before: the placeholder alone at the
\* initial load, the options of the last render on a later re-fetch.
C3_FailureKeepsSelect ==
    [][(last' # last /\ FetchFailed(last'))
       => /\ activitiesList' = FailedHtml
          /\ activitySelect' = activitySelect
          /\ (last'.cb = "load" => activitySelect' = <<Placeholder>>)]_vars

\* a re-fetch failed and the options of an earlier render are still there
C3_Witness ==
    /\ FetchFailed(last)
    /\ last.cb # "load"
    /\ activitiesList = FailedHtml
    /\ Len(activitySelect) = Len(Catalog) + 1

\* the await of a callback saw a JSON body with an OK status, a non-OK one
SawOk(e) == e.step = "response" /\ e.resp.kind = "json" /\ e.resp.ok

SawNotOk(e) == e.step = "response" /\ e.resp.kind = "json" /\ ~e.resp.ok

Refetching(id) == \E t \in tasks : t.id = id /\ t.method = "GET" /\ t.pc = "refresh"

\* C4: when a signup is answered with HTTP OK and a JSON body, the banner
\* shows the server's message with the success style, the form's fields are
\* reset and a re-fetch of the activity list is issued.
C4_SignupOk ==
    (last.cb = "signup" /\ SawOk(last))
    => /\ messageDiv = [textContent |-> last.resp.body.message, classes |-> {"success"}]
       /\ formFields = Reset
       /\ Refetching(last.id)

C4_Witness ==
    /\ last.cb = "signup" /\ SawOk(last)
    /\ messageDiv.textContent = "Signed up"
    /\ Refetching(last.id)

\* C5: when a signup is answered with a non-OK status, the banner shows the
\* server's detail, or the fallback text when there is none, with the error
\* style, and the form's fields, the displayed list and the selection control
\* stay as they were.
C5_SignupNotOk ==
    [][(Ran("response", "signup") /\ SawNotOk(last'))
       => /\ messageDiv' =
               [textContent |-> IF last'.resp.body.detail = "" THEN "An error occurred"
                                ELSE last'.resp.body.detail,
                classes |-> {"error"}]
          /\ UNCHANGED <<formFields, activitiesList, activitySelect>>]_vars

C5_Witness ==
    /\ last.cb = "signup" /\ SawNotOk(last)
    /\ messageDiv.textContent = "An error occurred"
    /\ formFields.email # <<>>
    /\ activitiesList.kind = "cards"

\* C6: when the user declines the confirmation dialog of a removal click, no
\* request is issued and the banner, the displayed list and the selection
\* control stay as they were.
C6_DeclinedChangesNothing ==
    [][(Ran("click", "remove") /\ dialogs' = dialogs + 1 /\ ~last'.sure)
       => UNCHANGED <<tasks, net, messageDiv, activitiesList, activitySelect>>]_vars

C6_Witness ==
    /\ last.step = "click" /\ ~last.sure /\ dialogs = 1
    /\ last.target \in RenderedItems
    /\ net.DELETE = 0

\* C7: every outcome of a confirmed removal makes the banner visible, with
\* the success style for HTTP OK and the error style otherwise, and arms an
\* auto-hide timer (on the response when it is not OK, after the re-fetch
\* when it is); the HTTP OK outcome alone issues a re-fetch.
C7_RemovalOutcomes ==
    /\ (last.cb = "remove" /\ last.step = "response")
       => /\ Visible(messageDiv)
          /\ messageDiv.classes = {IF SawOk(last) THEN "success" ELSE "error"}
          /\ IF SawOk(last)
             THEN Refetching(last.id)
             ELSE /\ \A t \in tasks : t.id # last.id
                  /\ timers # <<>> /\ Last(timers) = last.id
    /\ (last.cb = "remove" /\ last.step = "render")
       => timers # <<>> /\ Last(timers) = last.id

C7_Witness ==
    /\ last.cb = "remove" /\ last.step = "response"
    /\ last.resp.kind \in {"neterr", "nonjson"}
    /\ timers # <<>> /\ Last(timers) = last.id
    /\ messageDiv.classes = {"error"}
    /\ activitiesList.kind = "cards"

\* C8: a GET of the activity list is issued once at page load, once in each
\* callback that sees a signup or a removal answered with HTTP OK, and in no
\* other step.
C8_GetOnlyAfterOk ==
    /\ net.GET = 1
    /\ [][net'.GET = net.GET + (IF last' # last /\ SawOk(last') THEN 1 ELSE 0)]_vars

C8_Witness ==
    /\ net.GET = 2
    /\ SawNotOk(last)
    /\ dialogs = 0

\* C9: a click on a removal control whose row lacks the activity or the
\* participant data attribute, or carries an empty one, shows no
\* confirmation dialog and issues no request.
LacksData(target) ==
    /\ target.kind = "item"
    /\ \/ ~target.activity.present \/ target.activity.v = <<>>
       \/ ~target.email.present \/ target.email.v = <<>>

C9_MissingDataAbortsSilently ==
    [][(Ran("click", "remove") /\ LacksData(last'.target))
       => UNCHANGED <<dialogs, tasks, net>>]_vars

\* C10: for every activity of a rendered response, the card's spots left is
\* max_participants minus the number of participants, and the card has one
\* row per participant.
C10_SpotsLeftAndRows ==
    activitiesList.kind = "cards"
    => /\ Len(activitiesList.cards) = Len(lastRendered)
       /\ \A i \in DOMAIN lastRendered :
             LET d == lastRendered[i].details
                 card == activitiesList.cards[i]
             IN  /\ card.name = lastRendered[i].name
                 /\ card.spotsLeft + Len(d.participants) = d.max_participants
                 /\ Len(card.items) = Len(d.participants)

C10_Witness ==
    /\ activitiesList.kind = "cards"
    /\ \E i \in DOMAIN activitiesList.cards :
          /\ Len(activitiesList.cards[i].items) = 2
          /\ activitiesList.cards[i].spotsLeft = 0
    /\ \E i \in DOMAIN activitiesList.cards : activitiesList.cards[i].spotsLeft = 1

\* C11: render is idempotent: a render of the data that the list already
\* shows leaves the list container and the selection control with the same
\* content (no duplicated cards or options).
C11_RenderIdempotent ==
    [][(/\ Ran("render", last'.cb)
        /\ last'.outcome = "rendered"
        /\ activitiesList.kind = "cards"
        /\ last'.resp.entries = lastRendered)
       => /\ activitiesList' = activitiesList
          /\ activitySelect' = activitySelect]_vars

\* two signups overlap and both are accepted before either re-fetch is
\* answered; the second's re-fetch is rendered first (its timer is the older
\* one), then the first's re-fetch renders the same data again
C11_Witness ==
    /\ last.step = "render" /\ last.cb = "signup" /\ last.id = 1
    /\ last.outcome = "rendered"
    /\ timers = <<2, 1>>
    /\ tasks = {} /\ ~faults
    /\ net.GET = 3 /\ net.POST = 2
    /\ \A i \in DOMAIN server : \E e \in Emails : e \in Range(server[i])
    /\ last.resp.entries = Activities(server)
    /\ activitiesList = [kind |-> "cards", cards |-> CardsOf(server)]
    /\ Len(activitySelect) = Len(Catalog) + 1

\* the rows of the list container, each with the name of its card
RenderedRows ==
    UNION {{[name |-> activitiesList.cards[i].name, item |-> activitiesList.cards[i].items[j]] :
                j \in DOMAIN activitiesList.cards[i].items} :
            i \in DOMAIN activitiesList.cards}

\* every string of at most MaxLen characters of the model's alphabet
Strings == UNION {[1..n -> Unreserved \cup DOMAIN HexOf] : n \in 0..MaxLen}

RoundTripOnStrings ==
    \A s \in Strings : decodeString(encodeURIComponent(s)) = [ok |-> TRUE, v |-> s]

\* C12: round trip: for every rendered removal row, decoding its data
\* attributes gives back the activity name and the participant identifier
\* that were rendered, and the URL of the deletion request of a confirmed
\* click on the row (encoded again at line 130) names exactly that activity
\* and that participant.
C12_RoundTrip ==
    /\ [](/\ RoundTripOnStrings
          /\ \A row \in RenderedRows :
                /\ decodeURIComponent(row.item.activity) = [ok |-> TRUE, v |-> row.name]
                /\ decodeURIComponent(row.item.email) = [ok |-> TRUE, v |-> row.item.label])
    /\ [][(Ran("click", "remove") /\ last'.outcome = "confirmed")
          => \A row \in RenderedRows :
                (last'.target = Item(row.item.activity, row.item.email))
                => \E t \in tasks' :
                      /\ t.id = last'.id /\ t.method = "DELETE"
                      /\ decodeString(t.activity) = [ok |-> TRUE, v |-> row.name]
                      /\ decodeString(t.email) = [ok |-> TRUE, v |-> row.item.label]]_vars

\* a confirmed click on the rendered row of a@b in activity "a b": both
\* strings hold a reserved character
C12_Witness ==
    /\ last.step = "click" /\ last.outcome = "confirmed"
    /\ last.target = Item(Attr(<<"a", "%", "2", "0", "b">>), Attr(<<"a", "%", "4", "0", "b">>))
    /\ last.target \in RenderedItems
    /\ \E t \in tasks : t.id = last.id /\ t.method = "DELETE"

\* C13: a pending auto-hide timer is never cancelled: the queue of timers
\* changes only by a handler arming one more or by the oldest one firing, and
\* a timer that fires hides the banner whatever it shows, keeping its text.
C13_TimersNeverCancelled ==
    [][timers' # timers
       => \/ /\ Len(timers') = Len(timers) + 1
             /\ SubSeq(timers', 1, Len(timers)) = timers
             /\ last' # last /\ last'.step \in {"response", "render"}
             /\ Last(timers') = last'.id
          \/ /\ timers' = Tail(timers)
             /\ last' # last /\ last'.step = "timer" /\ last'.id = Head(timers)
             /\ ~Visible(messageDiv')
             /\ messageDiv'.textContent = messageDiv.textContent]_vars

\* the timer armed for action 1 fires while the banner shows the message of
\* the removal that is action 2, whose own timer is not armed yet (its
\* re-fetch is still in flight): the later message is hidden early
C13_Witness ==
    /\ last.step = "timer" /\ last.id = 1
    /\ \E t \in tasks : t.id = 2 /\ t.cb = "remove" /\ t.pc = "refresh"
    /\ 2 \notin Range(timers)
    /\ net.POST = 1 /\ net.DELETE = 1
    /\ messageDiv = [textContent |-> "Unregistered", classes |-> {"success", "hidden"}]

\* what a render of response resp alone displays in the list container
Shown(resp) ==
    IF resp.kind = "json" /\ ~RenderEntries(resp.entries, Cleared).threw
    THEN [kind |-> "cards", cards |-> RenderEntries(resp.entries, Cleared).cards]
    ELSE FailedHtml

\* C14: the last response to resolve wins: every fetch of the activity list
\* that resolves replaces the displayed content by that of its own response,
\* whatever was displayed and whenever its request was issued, and nothing
\* else changes the displayed content; so after overlapping fetches the
\* content is that of the response that resolved last.
C14_LastResolvedWins ==
    [][/\ (last' # last /\ last'.step = "render") => activitiesList' = Shown(last'.resp)
       /\ activitiesList' # activitiesList => (last' # last /\ last'.step = "render")]_vars

\* the re-fetches of two accepted actions overlap; the first one issued was
\* answered before the second action was applied and resolved last: the
\* display is the first one's data, which the server no longer holds
C14_Witness ==
    /\ last.step = "render" /\ last.id = 1 /\ last.outcome = "rendered"
    /\ timers = <<2, 1>>
    /\ tasks = {} /\ ~faults
    /\ net.GET = 3
    /\ activitiesList = Shown(last.resp)
    /\ activitiesList.cards # CardsOf(server)

\* the fixed text of the catch block of each handler
GenericFailure(cb) ==
    IF cb = "signup" THEN "Failed to sign up. Please try again."
    ELSE "Failed to remove participant"

\* C15: when the request of a signup or removal fails or its response cannot
\* be parsed, whatever its HTTP status, the handler shows its fixed generic
\* failure message with the error style, visible, leaves the form's fields as
\* they are and issues no request (no re-fetch of the activity list).
C15_ParseOrTransportFailure ==
    [][(last' # last /\ last'.step = "response" /\ last'.resp.kind \in {"nonjson", "neterr"})
       => /\ messageDiv' = [textContent |-> GenericFailure(last'.cb), classes |-> {"error"}]
          /\ formFields' = formFields
          /\ net' = net
          /\ tasks' \subseteq tasks
          /\ ~\E t \in tasks' : t.id = last'.id]_vars

\* a signup that the server applied and answered with an OK status and a
\* body that is not JSON: the page reports a failure and keeps the form
C15_Witness ==
    /\ last.step = "response" /\ last.cb = "signup"
    /\ last.resp.kind = "nonjson" /\ last.resp.ok
    /\ server \notin InitialRosters
    /\ messageDiv = [textContent |-> "Failed to sign up. Please try again.",
                     classes |-> {"error"}]
    /\ formFields.email # <<>>
    /\ ~Refetching(last.id)

\* the text a handler shows for the outcome recorded in event e
OutcomeText(e) ==
    IF SawOk(e) THEN e.resp.body.message
    ELSE IF SawNotOk(e)
         THEN Or(e.resp.body.detail,
                 IF e.cb = "signup" THEN "An error occurred" ELSE "Failed to remove participant")
         ELSE GenericFailure(e.cb)

\* C16: in every state the banner is hidden, visible with the success style
\* or visible with the error style; its text and its style are set together
\* from one handler outcome (success style only with the message of an HTTP
\* OK response, error style otherwise); and it changes only by the outcome of
\* a signup or removal (the signup handler showing it again after its own
\* re-fetch included) or by a hide timer, never by a render of the activity
\* list as such, a failed initial load included.
C16_BannerStates ==
    /\ [](/\ messageDiv.classes \in {{"hidden"}, {"success"}, {"error"},
                                     {"success", "hidden"}, {"error", "hidden"}}
          /\ messageDiv.classes = {"hidden"} => messageDiv.textContent = "")
    /\ [][messageDiv' # messageDiv
          => /\ last' # last
             /\ \/ /\ last'.step = "response"
                   /\ messageDiv' = [textContent |-> OutcomeText(last'),
                                     classes |-> {IF SawOk(last') THEN "success" ELSE "error"}]
                \/ /\ last'.step = "timer"
                   /\ messageDiv' = ClassListAdd(messageDiv, "hidden")
                \/ /\ last'.step = "render" /\ last'.cb = "signup"
                   /\ messageDiv' = ClassListRemove(messageDiv, "hidden")]_vars

\* the initial load failed before any action: the list shows the failure
\* text and the banner is still hidden and empty
C16_Witness ==
    /\ last.step = "render" /\ last.cb = "load" /\ last.outcome = "failed"
    /\ nextId = 1
    /\ activitiesList = FailedHtml
    /\ messageDiv = [textContent |-> "", classes |-> {"hidden"}]

\* the names of the displayed cards, in their order
DisplayedNames == [i \in DOMAIN activitiesList.cards |-> activitiesList.cards[i].name]

\* C17: a render is atomic for the other callbacks: in every state between
\* callbacks the displayed cards are exactly the cards of one response (the
\* one rendered last), never a mix of two responses or a half-built list,
\* and while cards are displayed the select holds the placeholder followed
\* by the names of the displayed activities in the same order, also when
\* fetches overlap.
C17_RenderAtomic ==
    IF activitiesList.kind = "cards"
    THEN /\ activitiesList.cards = RenderEntries(lastRendered, Cleared).cards
         /\ Len(activitiesList.cards) = Len(lastRendered)
         /\ activitySelect = <<Placeholder>> \o DisplayedNames
    ELSE activitiesList.cards = <<>>

\* one of two overlapping fetches has been rendered in full while the other,
\* already answered with different data, still waits for its callback
C17_Witness ==
    /\ last.step = "render" /\ last.outcome = "rendered"
    /\ activitiesList.kind = "cards" /\ Len(activitiesList.cards) = Len(Catalog)
    /\ activitySelect = <<Placeholder>> \o DisplayedNames
    /\ \E t \in tasks : /\ t.pc = "refresh" /\ t.served /\ t.resp.kind = "json"
                        /\ t.resp.entries # lastRendered
                        /\ t.id < last.id

\* C18: on an accepted signup or removal the step that issues the re-fetch
\* leaves the banner visible and arms no timer; the timer of that action is
\* armed by the step that ends its re-fetch, rendered or failed; so no timer
\* of an action is pending while that action's re-fetch is in flight.
C18_TimerAfterRefetch ==
    /\ [](\A t \in tasks :
            (t.pc = "refresh" /\ t.cb \in {"signup", "remove"}) => t.id \notin Range(timers))
    /\ [][/\ (last' # last /\ SawOk(last'))
             => /\ Visible(messageDiv')
                /\ \E t \in tasks' \ tasks : t.id = last'.id /\ t.method = "GET"
                /\ timers' = timers
          /\ (last' # last /\ last'.step = "render" /\ last'.cb \in {"signup", "remove"})
             => /\ timers' = Append(timers, last'.id)
                /\ ~\E t \in tasks' : t.id = last'.id]_vars

\* the re-fetch of an accepted removal failed: the success message is still
\* visible and its timer, the only one, is armed now
C18_Witness ==
    /\ last.step = "render" /\ last.cb = "remove" /\ last.outcome = "failed"
    /\ timers = <<last.id>>
    /\ tasks = {}
    /\ messageDiv = [textContent |-> "Unregistered", classes |-> {"success"}]
    /\ activitiesList = FailedHtml

=============================================================================
